---- MODULE Spec2Model ----
(***************************************************************************)
(* Model of the two pagination formatters of the repository:               *)
(*   src/examples/pagination/jg_pagination.py      paginate  (jg_paginate) *)
(*   src/odds-and-ends/pagination/pagination.py    paginate  (pg_paginate) *)
(* Both are pure functions of three integers.  Init draws the three        *)
(* arguments from bounded sets; each action calls one of the functions on  *)
(* them and stores the list of rendered tokens and the joined string.      *)
(***************************************************************************)
EXTENDS Integers, Sequences, FiniteSets, TLC

\* largest totalPages / total_pages drawn
MaxTotal == 9
\* largest maxVisiblePages / max_pages drawn
MaxVisible == 8
\* how far below 1 the arguments go, and how far curPage goes above MaxTotal
Slack == 2

CurPages == (0 - Slack)..(MaxTotal + Slack)
TotalPages == (0 - Slack)..MaxTotal
MaxPages == (0 - Slack)..MaxVisible

VARIABLES curPage, totalPages, maxVisiblePages,
          jg_called, jg_tokens, jg_result,
          pg_called, pg_tokens, pg_result, pg_branch

vars == <<curPage, totalPages, maxVisiblePages,
          jg_called, jg_tokens, jg_result,
          pg_called, pg_tokens, pg_result, pg_branch>>

max(a, b) == IF a >= b THEN a ELSE b
min(a, b) == IF a <= b THEN a ELSE b

\* range(a, b): a, a+1, ..., b-1 as a list (empty when b <= a)
range(a, b) == [i \in 1..max(0, b - a) |-> a + i - 1]

\* ' '.join(parts)
RECURSIVE join(_)
join(parts) ==
    IF Len(parts) = 0 THEN ""
    ELSE IF Len(parts) = 1 THEN parts[1]
    ELSE parts[1] \o " " \o join(Tail(parts))

\* f"{n}" and f"[{n}]"
str(n) == ToString(n)
bracketed(n) == "[" \o ToString(n) \o "]"

(***************************************************************************)
(* jg_pagination.py                                                        *)
(***************************************************************************)

\* an element of the list `pages`: an int, or the string '...'
IntItem(n) == [isInt |-> TRUE, v |-> n]
EllipsisItem == [isInt |-> FALSE, v |-> 0]

\* page(page, curPage): '...' never equals the int curPage
\* the two results of the conditional expression exchanged
page_swapped(p, cur) ==
    IF p.isInt THEN (IF cur = p.v THEN str(p.v) ELSE bracketed(p.v))
    ELSE "..."

page(p, cur) ==
    IF p.isInt THEN (IF cur = p.v THEN bracketed(p.v) ELSE str(p.v))
    ELSE "..."

\* the handling of an invalid maxVisiblePages left out
maxP_unchecked(mv) == mv

maxP(mv) == IF mv < 3 THEN 3 ELSE mv

\* mid rounding up for odd numbers
mid_rounding_up(mv) == (maxP(mv) + 1) \div 2

mid(mv) == maxP(mv) \div 2
extra(mv) == maxP(mv) % 2

secondPage0(cur, mv) == max(0, cur - mid(mv) - extra(mv)) + 2
\* only one slot reserved for the start and end
penultimatePage0_one_reserved(cur, mv) == secondPage0(cur, mv) + maxP(mv) - 1

penultimatePage0(cur, mv) == secondPage0(cur, mv) + maxP(mv) - 2
overflow(cur, total, mv) ==
    IF penultimatePage0(cur, mv) > total
    THEN penultimatePage0(cur, mv) - total ELSE 0
secondPage(cur, total, mv) == secondPage0(cur, mv) - overflow(cur, total, mv)
penultimatePage(cur, total, mv) ==
    penultimatePage0(cur, mv) - overflow(cur, total, mv)

jg_noEllipses(total, mv) == total <= 3 \/ maxP(mv) >= total

\* list(range(1, lastP)): the last page left out
jg_all_pages_short(total) == [i \in 1..max(0, total - 1) |-> IntItem(i)]

\* lastP clamped to a minimum of 1 first
jg_all_pages_clamped(total) == [i \in 1..max(1, total) |-> IntItem(i)]

\* list(range(1, lastP + 1))
jg_all_pages(total) == [i \in 1..max(0, total) |-> IntItem(i)]

\* the test secondPage >= 2 instead of secondPage > 2
jg_left_ellipsis_eager(sp) == IF sp >= 2 THEN <<EllipsisItem>> ELSE <<>>

jg_left_ellipsis(sp) == IF sp > 2 THEN <<EllipsisItem>> ELSE <<>>

\* the test penultimatePage <= lastP instead of penultimatePage < lastP
jg_right_ellipsis_eager(pp, total) ==
    IF pp <= total THEN <<EllipsisItem>> ELSE <<>>

jg_right_ellipsis(pp, total) == IF pp < total THEN <<EllipsisItem>> ELSE <<>>

jg_pages(cur, total, mv) ==
    IF jg_noEllipses(total, mv)
    THEN jg_all_pages(total)
    ELSE LET sp == secondPage(cur, total, mv)
             pp == penultimatePage(cur, total, mv)
             r  == range(sp, pp)
         IN  <<IntItem(1)>>
             \o jg_left_ellipsis(sp)
             \o [i \in 1..Len(r) |-> IntItem(r[i])]
             \o jg_right_ellipsis(pp, total)
             \o <<IntItem(total)>>

\* curPage clamped into [1, totalPages] before the pages are rendered
jg_paginate_tokens_clamping(cur, total, mv) ==
    LET pages == jg_pages(cur, total, mv)
    IN  [i \in 1..Len(pages) |-> page(pages[i], max(1, min(cur, total)))]

jg_paginate_tokens(cur, total, mv) ==
    LET pages == jg_pages(cur, total, mv)
    IN  [i \in 1..Len(pages) |-> page(pages[i], cur)]

jg_paginate(cur, total, mv) == join(jg_paginate_tokens(cur, total, mv))

(***************************************************************************)
(* odds-and-ends/pagination/pagination.py                                  *)
(***************************************************************************)

\* the sentinel that stands for an ellipsis in pages_to_show
Ellipsis == -1

\* parameter validation, in the order of the code: current_page is clamped
\* against the total_pages argument before total_pages itself is clamped
\* the upper clamp forgotten
current_page_no_upper(cur, total) == max(1, cur)

current_page(cur, total) == max(1, min(cur, total))
total_pages(total) == max(1, total)
max_pages(mp) == max(3, mp)

remaining_pages(mp) == max_pages(mp) - 2

\* the comparison >= instead of >
need_left_ellipsis_early(cur, total, mp) ==
    current_page(cur, total) >= remaining_pages(mp) \div 2 + 2

need_left_ellipsis(cur, total, mp) ==
    current_page(cur, total) > remaining_pages(mp) \div 2 + 2
\* the threshold one page too far right
need_right_ellipsis_late(cur, total, mp) ==
    current_page(cur, total) < total_pages(total) - remaining_pages(mp) \div 2

need_right_ellipsis(cur, total, mp) ==
    current_page(cur, total) < total_pages(total) - remaining_pages(mp) \div 2 - 1

side_pages(mp) == (remaining_pages(mp) - 1) \div 2

\* the branch of the if/elif chain that sets start_page and end_page
branch(cur, total, mp) ==
    IF total_pages(total) <= max_pages(mp) THEN "all"
    ELSE IF need_left_ellipsis(cur, total, mp) /\ need_right_ellipsis(cur, total, mp)
         THEN "both"
    ELSE IF need_left_ellipsis(cur, total, mp) THEN "left"
    ELSE IF need_right_ellipsis(cur, total, mp) THEN "right"
    ELSE "neither"

\* <<start_page, end_page>> of the middle section
middle(cur, total, mp) ==
    LET cp == current_page(cur, total)
        tp == total_pages(total)
        rp == remaining_pages(mp)
        b  == branch(cur, total, mp)
    IN  IF b = "both"
        THEN LET s0 == max(2, cp - side_pages(mp))
                 e0 == min(tp - 1, cp + side_pages(mp))
             IN  IF rp % 2 = 0
                 THEN IF cp - s0 < e0 - cp THEN <<s0, e0 + 1>>
                      ELSE <<s0 - 1, e0>>
                 ELSE <<s0, e0>>
        ELSE IF b = "left" THEN <<tp - rp, tp - 1>>
        ELSE IF b = "right" THEN <<2, rp + 1>>
        ELSE <<2, tp - 1>>

start_page(cur, total, mp) == middle(cur, total, mp)[1]
end_page(cur, total, mp) == middle(cur, total, mp)[2]

pages_to_show(cur, total, mp) ==
    IF branch(cur, total, mp) = "all"
    THEN range(1, total_pages(total) + 1)
    ELSE <<1>>
         \o (IF need_left_ellipsis(cur, total, mp) THEN <<Ellipsis>> ELSE <<>>)
         \o range(start_page(cur, total, mp), end_page(cur, total, mp) + 1)
         \o (IF need_right_ellipsis(cur, total, mp) THEN <<Ellipsis>> ELSE <<>>)
         \o (IF total_pages(total) > 1 THEN <<total_pages(total)>> ELSE <<>>)

\* the conversion loop: the ellipsis test comes before the current-page test
\* (the early-return loop of the "all" branch has no ellipsis to test)
convert(p, cp) ==
    IF p = Ellipsis THEN "..."
    ELSE IF p = cp THEN bracketed(p)
    ELSE str(p)

pg_paginate_tokens(cur, total, mp) ==
    LET ps == pages_to_show(cur, total, mp)
    IN  [i \in 1..Len(ps) |-> convert(ps[i], current_page(cur, total))]

pg_paginate(cur, total, mp) == join(pg_paginate_tokens(cur, total, mp))

Init ==
    /\ curPage \in CurPages
    /\ totalPages \in TotalPages
    /\ maxVisiblePages \in MaxPages
    /\ jg_called = FALSE
    /\ jg_tokens = <<>>
    /\ jg_result = ""
    /\ pg_called = FALSE
    /\ pg_tokens = <<>>
    /\ pg_result = ""
    /\ pg_branch = "none"

CallJg ==
    /\ ~jg_called
    /\ jg_called' = TRUE
    /\ jg_tokens' = jg_paginate_tokens(curPage, totalPages, maxVisiblePages)
    /\ jg_result' = jg_paginate(curPage, totalPages, maxVisiblePages)
    /\ UNCHANGED <<curPage, totalPages, maxVisiblePages,
                   pg_called, pg_tokens, pg_result, pg_branch>>

CallPg ==
    /\ ~pg_called
    /\ pg_called' = TRUE
    /\ pg_tokens' = pg_paginate_tokens(curPage, totalPages, maxVisiblePages)
    /\ pg_result' = pg_paginate(curPage, totalPages, maxVisiblePages)
    /\ pg_branch' = branch(curPage, totalPages, maxVisiblePages)
    /\ UNCHANGED <<curPage, totalPages, maxVisiblePages,
                   jg_called, jg_tokens, jg_result>>

Next == CallJg \/ CallPg

Spec == Init /\ [][Next]_vars

(***************************************************************************)
(* Reading a result back: the tokens of a result are the pieces between    *)
(* the single spaces; a token is '...', a decimal number, or a decimal     *)
(* number in square brackets.                                              *)
(***************************************************************************)

TokenNums == (0 - Slack - 3)..(MaxTotal + Slack + 3)

IsEllipsisToken(t) == t = "..."
IsBracketed(t) == \E n \in TokenNums : t = "[" \o ToString(n) \o "]"
IsPlain(t) == \E n \in TokenNums : t = ToString(n)
IsNumeric(t) == IsBracketed(t) \/ IsPlain(t)
NumOf(t) ==
    CHOOSE n \in TokenNums : t = ToString(n) \/ t = "[" \o ToString(n) \o "]"

Numerics(toks) ==
    LET s == SelectSeq(toks, IsNumeric) IN [i \in 1..Len(s) |-> NumOf(s[i])]
BracketedNums(toks) ==
    LET s == SelectSeq(toks, IsBracketed) IN [i \in 1..Len(s) |-> NumOf(s[i])]
EllipsisPositions(toks) == {i \in 1..Len(toks) : IsEllipsisToken(toks[i])}
BracketPositions(toks) == {i \in 1..Len(toks) : IsBracketed(toks[i])}

Clamp(x, lo, hi) == IF x < lo THEN lo ELSE IF x > hi THEN hi ELSE x
AtLeast3(mv) == IF mv >= 3 THEN mv ELSE 3

\* the list 1..total with cur in brackets, as a list of tokens
AllPages(cur, total) ==
    [i \in 1..total |-> IF i = cur THEN "[" \o ToString(i) \o "]" ELSE ToString(i)]

FirstAndLast(toks, total) ==
    LET ns == Numerics(toks)
    IN  /\ Len(ns) >= 1
        /\ ns[1] = 1
        /\ (total > 1 => ns[Len(ns)] = total)

StrictlyIncreasing(ns) == \A i \in 1..(Len(ns) - 1) : ns[i] < ns[i + 1]

\* each ellipsis stands between two numeric tokens a, b with b - a >= gap
EllipsisGaps(toks, gap) ==
    \A i \in EllipsisPositions(toks) :
        /\ 1 < i /\ i < Len(toks)
        /\ IsNumeric(toks[i - 1]) /\ IsNumeric(toks[i + 1])
        /\ NumOf(toks[i + 1]) - NumOf(toks[i - 1]) >= gap

NoAdjacentEllipses(toks) ==
    \A i \in 1..(Len(toks) - 1) :
        ~(IsEllipsisToken(toks[i]) /\ IsEllipsisToken(toks[i + 1]))

NeighboursConsecutive(toks) ==
    \A i \in 1..(Len(toks) - 1) :
        (IsNumeric(toks[i]) /\ IsNumeric(toks[i + 1]))
            => NumOf(toks[i + 1]) = NumOf(toks[i]) + 1

Contiguity(toks) ==
    /\ \A i \in 1..Len(toks) : IsNumeric(toks[i]) \/ IsEllipsisToken(toks[i])
    /\ StrictlyIncreasing(Numerics(toks))
    /\ NeighboursConsecutive(toks)
    /\ EllipsisGaps(toks, 2)

\* pages of the middle run shown left (L) and right (R) of the bracketed page,
\* when the output has both ellipses: <<L, R>>, or <<>> when the bracketed
\* page is not between the two ellipses
LeftRight(toks) ==
    LET es == EllipsisPositions(toks)
        bs == BracketPositions(toks)
    IN  IF Cardinality(es) = 2 /\ Cardinality(bs) = 1
        THEN LET i1 == CHOOSE i \in es : \A j \in es : i <= j
                 i2 == CHOOSE i \in es : \A j \in es : i >= j
                 ic == CHOOSE i \in bs : TRUE
             IN  IF i1 < ic /\ ic < i2
                 THEN <<ic - i1 - 1, i2 - ic - 1>> ELSE <<>>
        ELSE <<>>

JgGeneralBoth ==
    /\ jg_called
    /\ totalPages > 3
    /\ AtLeast3(maxVisiblePages) < totalPages
    /\ curPage \in 1..totalPages
    /\ Cardinality(EllipsisPositions(jg_tokens)) = 2

JgTrivial ==
    /\ jg_called
    /\ totalPages >= 1
    /\ (totalPages <= 3 \/ AtLeast3(maxVisiblePages) >= totalPages)
    /\ curPage \in 1..totalPages

(***************************************************************************)
(* Claims                                                                  *)
(***************************************************************************)

C2_OneCurrentClamped ==
    pg_called =>
        BracketedNums(pg_tokens)
            = <<Clamp(curPage, 1, (IF totalPages >= 1 THEN totalPages ELSE 1))>>

C2_Witness ==
    /\ pg_called /\ totalPages <= 0 /\ curPage > 1
    /\ pg_tokens = <<"[1]">>

\* C3: in both implementations, for totalPages >= 1, the first numeric token
\* is page 1 and, when totalPages > 1, the last numeric token is totalPages.
C3_FirstAndLast ==
    /\ (jg_called /\ totalPages >= 1) => FirstAndLast(jg_tokens, totalPages)
    /\ (pg_called /\ totalPages >= 1) => FirstAndLast(pg_tokens, totalPages)

C3_Witness ==
    /\ jg_called /\ pg_called /\ totalPages > 3
    /\ EllipsisPositions(jg_tokens) # {} /\ EllipsisPositions(pg_tokens) # {}
    /\ curPage \in 2..(totalPages - 1)

\* C4 (as stated): for total_pages >= 1 the number of numeric tokens in the
\* output of pagination.paginate never exceeds max(3, max_pages).
C4_PgCount ==
    (pg_called /\ totalPages >= 1)
        => Len(Numerics(pg_tokens)) <= AtLeast3(maxVisiblePages)

\* C5: for totalPages >= 1 the number of numeric tokens in the output of
\* jg_pagination.paginate never exceeds max(3, maxVisiblePages).
C5_JgCount ==
    (jg_called /\ totalPages >= 1)
        => Len(Numerics(jg_tokens)) <= AtLeast3(maxVisiblePages)

C5_Witness ==
    /\ jg_called /\ totalPages > AtLeast3(maxVisiblePages)
    /\ Len(Numerics(jg_tokens)) = AtLeast3(maxVisiblePages)
    /\ Cardinality(EllipsisPositions(jg_tokens)) = 2

\* C6 (as stated): in the output of jg_pagination.paginate no two ellipses
\* are adjacent and an ellipsis between numeric tokens a and b requires
\* b - a >= 3 (a gap of exactly one page is shown as the page itself).
C6_GapAtLeastTwoPages ==
    (jg_called /\ totalPages >= 1)
        => (NoAdjacentEllipses(jg_tokens) /\ EllipsisGaps(jg_tokens, 3))

\* C6 (amended): in the output of jg_pagination.paginate no two ellipses are
\* adjacent and every ellipsis stands for at least one omitted page: an
\* ellipsis between numeric tokens a and b requires b - a >= 2, so a gap of
\* exactly one page is shown as an ellipsis.
C6_GapAtLeastOnePage ==
    (jg_called /\ totalPages >= 1)
        => (NoAdjacentEllipses(jg_tokens) /\ EllipsisGaps(jg_tokens, 2))

C6_Witness ==
    /\ jg_called /\ totalPages >= 1
    /\ \E i \in EllipsisPositions(jg_tokens) :
          /\ 1 < i /\ i < Len(jg_tokens)
          /\ NumOf(jg_tokens[i + 1]) - NumOf(jg_tokens[i - 1]) = 2

\* C7: in both implementations, for totalPages >= 1, the numeric tokens are
\* strictly increasing, two numeric tokens with no ellipsis between them are
\* consecutive page numbers, and two numeric tokens separated by an ellipsis
\* are not consecutive.
C7_Contiguity ==
    /\ (jg_called /\ totalPages >= 1) => Contiguity(jg_tokens)
    /\ (pg_called /\ totalPages >= 1) => Contiguity(pg_tokens)

C7_Witness ==
    /\ jg_called /\ pg_called /\ totalPages >= 1
    /\ Cardinality(EllipsisPositions(jg_tokens)) = 2
    /\ Cardinality(EllipsisPositions(pg_tokens)) = 2
    /\ Len(jg_tokens) > 5 /\ Len(pg_tokens) > 5

C9_SinglePage ==
    (jg_called /\ totalPages <= 0)
        => (jg_result # "" /\ jg_tokens = <<"[1]">> /\ jg_result = "[1]")

\* C9 (amended): for totalPages <= 0 jg_pagination.paginate returns the empty
\* string: the output has no token at all.
C9_Empty ==
    (jg_called /\ totalPages <= 0) => (jg_result = "" /\ jg_tokens = <<>>)

C9_Witness == jg_called /\ totalPages <= 0 /\ curPage = 1 /\ jg_result = ""

C11_BelowThreeIsThree ==
    /\ (jg_called /\ maxVisiblePages < 3)
          => /\ jg_result = jg_paginate(curPage, totalPages, 3)
             /\ jg_tokens = jg_paginate_tokens(curPage, totalPages, 3)
    /\ (pg_called /\ maxVisiblePages < 3)
          => /\ pg_result = pg_paginate(curPage, totalPages, 3)
             /\ pg_tokens = pg_paginate_tokens(curPage, totalPages, 3)

C11_Witness ==
    /\ jg_called /\ pg_called /\ maxVisiblePages < 3 /\ totalPages > 3
    /\ curPage \in 1..totalPages
    /\ EllipsisPositions(jg_tokens) # {} /\ EllipsisPositions(pg_tokens) # {}

JgSmallMaxInterior ==
    /\ jg_called
    /\ maxVisiblePages <= 3
    /\ totalPages > 3
    /\ 1 < curPage /\ curPage < totalPages

\* C12 (as stated): jg_pagination.paginate with maxVisiblePages <= 3 and
\* totalPages > 3 returns exactly the five tokens
\* '1 ... [curPage] ... totalPages' whenever 1 < curPage < totalPages.
C12_FiveTokens ==
    JgSmallMaxInterior =>
        /\ jg_tokens = <<"1", "...", "[" \o ToString(curPage) \o "]", "...",
                         ToString(totalPages)>>
        /\ jg_result = "1 ... [" \o ToString(curPage) \o "] ... "
                          \o ToString(totalPages)

\* C12 (amended): jg_pagination.paginate with maxVisiblePages <= 3 and
\* totalPages > 3, for 1 < curPage < totalPages, returns page 1, the
\* bracketed curPage and totalPages, with an ellipsis before the bracketed
\* page exactly when curPage > 2 and an ellipsis after it exactly when
\* curPage < totalPages - 1; the five tokens '1 ... [curPage] ... totalPages'
\* are returned exactly when 2 < curPage < totalPages - 1.
C12_EllipsisOnlyOverGap ==
    JgSmallMaxInterior =>
        /\ jg_tokens =
              <<"1">>
              \o (IF curPage > 2 THEN <<"...">> ELSE <<>>)
              \o <<"[" \o ToString(curPage) \o "]">>
              \o (IF curPage < totalPages - 1 THEN <<"...">> ELSE <<>>)
              \o <<ToString(totalPages)>>
        /\ (Len(jg_tokens) = 5
               <=> (2 < curPage /\ curPage < totalPages - 1))

C12_Witness ==
    /\ JgSmallMaxInterior
    /\ 2 < curPage /\ curPage < totalPages - 1
    /\ Len(jg_tokens) = 5
    /\ Cardinality(EllipsisPositions(jg_tokens)) = 2

\* C13 (as stated): whenever pagination.paginate takes the non-trivial path
\* (clamped total_pages > max(3, max_pages)), at least one of
\* need_left_ellipsis and need_right_ellipsis is true, so the final else
\* branch is never executed.
C13_ElseNeverTaken ==
    (pg_called /\ pg_branch # "all") =>
        /\ (need_left_ellipsis(curPage, totalPages, maxVisiblePages)
              \/ need_right_ellipsis(curPage, totalPages, maxVisiblePages))
        /\ pg_branch # "neither"

====
